---- MODULE Spec2Model ----
(***************************************************************************)
(* Model of redis_based_rate_limiter.py: the rate_limiter decorator's      *)
(* wrapper (INCR, PEXPIRE on first count, admission decision) run by       *)
(* concurrent callers against one Redis store with per-key TTL.            *)
(*                                                                         *)
(* Time is in milliseconds.  A period argument (seconds, possibly a float) *)
(* is carried as a whole number of half-milliseconds, so that              *)
(* round(period*1000) has ties to round.                                   *)
(***************************************************************************)
EXTENDS Integers, Sequences, FiniteSets, TLC

\* ---------------------------------------------------------------- bounds
\* Largest value a counter is driven to.
MaxCount == 2

\* Callers (threads or processes sharing the store).
Procs == {"p1", "p2"}

\* thread_name arguments: the empty key and an ordinary one.
Names == {"", "k"}

\* calls arguments.
CallsInputs == {0, 1, 2}

\* period arguments in half-milliseconds:
\*   0, 1 = 0.5ms, 2 = 1ms, 600002 = 5min + 1ms
PeriodInputs == {0, 1, 2, 600002}

\* Amounts of time (ms) that may pass between two steps.
Steps == {1, 2}

\* Store addresses (host, port, db) given to rate_limiter.
Addrs == {"localhost:6379/0", "cache2:6380/1"}

\* Longest delay given to ensure_delay, in ticks.
MaxDelay == 3

\* Longest time the function wrapped by ensure_delay runs, in ticks.
MaxLatency == 3

\* Results of the function wrapped by ensure_delay.
FuncResults == {"r1", "r2"}

\* ------------------------------------------------------- program constants
\* 1000*60*5 of the period check
MaxPeriodMs == 1000 * 60 * 5

\* Remaining life of a key without expiry (INCR creates the key with no TTL).
NoTTL == -1

Min(a, b) == IF a < b THEN a ELSE b

\* redis.StrictRedis(host='localhost', port=6379, db=0, ...): the address the
\* client of a gate connects to, for the address a given to rate_limiter.
RedisClient(a) == "localhost:6379/0"

\* round(period*1000): Python rounds half to even.  h is period in half-ms.
Milliseconds(h) ==
    IF h % 2 = 0 THEN h \div 2
    ELSE LET lo == (h - 1) \div 2 IN IF lo % 2 = 0 THEN lo ELSE lo + 1

\* not (milliseconds_period <= 0 or milliseconds_period > 1000*60*5)
ValidMs(ms) == ~(ms <= 0 \/ ms > MaxPeriodMs)

\* Variant: a read-then-write that loses the update of a concurrent caller.
IncrValueStale(c) == IF c = 0 THEN 1 ELSE c

\* Variant: the command is sent twice.
IncrValueTwice(c) == c + 2

\* Redis INCR: an absent key counts as 0.
IncrValue(c) == c + 1

\* A gate in which the second call of a window arms the expiry as well.
IsFirstOrSecond(c) == c <= 2

\* A gate in which every call arms the expiry (a sliding window).
IsFirstOrLater(c) == c >= 1

\* if current_count == 1: the caller that arms the expiry
IsFirst(c) == c = 1

\* Variant: the comparison lets one call too many through.
DecisionOffByOne(c, n) == IF c > n + 1 THEN "Denied" ELSE "Allowed"

\* Variant: the comparison denies the call that reaches the limit.
DecisionStrict(c, n) == IF c >= n THEN "Denied" ELSE "Allowed"

\* A gate that raises on a count over the limit instead of returning None.
DecisionRaises(c, n) == IF c > n THEN "RateLimitError" ELSE "Allowed"

\* if current_count > calls: return None  /  return func(...)
Decision(c, n) == IF c > n THEN "Denied" ELSE "Allowed"

\* Variant: EXPIRE instead of PEXPIRE, the argument taken as seconds.
TtlAfterExpireSeconds(ms) == ms * 1000

\* Redis PEXPIRE key ms: the key lives ms more milliseconds.
TtlAfterPExpire(ms) == ms

\* Redis removes a key with remaining life r once more than r ms have passed.
Expired(r, d) == r # NoTTL /\ d > r

\* ------------------------------------------------------------------ state
VARIABLES
    count,      \* count[n]: value of key n, 0 when the key is absent
    ttl,        \* ttl[n]: remaining life of key n in ms, NoTTL when none
    pc,         \* pc[p]: position of caller p in wrapper
    nm,         \* nm[p]: thread_name bound to p's wrapper
    addr,       \* addr[p]: host, port and db given to p's rate_limiter
    calls,      \* calls[p]: calls bound to p's wrapper
    per,        \* per[p]: period bound to p's wrapper (half-ms)
    cur,        \* cur[p]: current_count, 0 when INCR returned nothing
    outcome,    \* outcome[p]: how p's call ended
    failed,     \* failed[p]: a store command of p's call raised
    nIncr,      \* nIncr[p]: INCR commands that p's call sent
    nPexp,      \* nPexp[p]: PEXPIRE commands that p's call sent
    nRuns,      \* nRuns[p]: executions of func in p's call
    pos,        \* pos[p]: rank of p's INCR among the INCRs of its window
    stale,      \* stale[p]: the window of p's INCR has been replaced
    win,        \* win[n]: the latest window of key n
    old,        \* old[n]: the window before it, while a call of it is running
    dpc,        \* position of the caller of ensure_delay's wrapper
    dsec,       \* seconds bound to ensure_delay's wrapper, in ticks
    dlat,       \* ticks func has been running
    dslept,     \* ticks spent in time.sleep
    dres,       \* result: what func returned
    dout        \* what ensure_delay's wrapper returned

\* The state of the gate and of the store.
gvars == <<count, ttl, pc, nm, addr, calls, per, cur, outcome, failed, nIncr,
           nPexp, nRuns, pos, stale, win, old>>

\* The state of ensure_delay's wrapper.
dvars == <<dpc, dsec, dlat, dslept, dres, dout>>

vars == <<gvars, dvars>>

\* Elapsed times of a window are compared with its period only: they are
\* counted up to one more than the period, which stands for "more than it".
AgeCap(ms) == IF ValidMs(ms) THEN ms + 1 ELSE 0

\* The record of a window, opened when INCR creates the key.
NewWindow(ms) ==
    [open |-> TRUE,        \* FALSE only before the first window of the key
     age |-> 0,            \* ms since the increment absent -> 1, up to AgeCap
     armed |-> FALSE,      \* a PEXPIRE was executed on the key
     armAge |-> 0,         \* ms since that PEXPIRE, up to AgeCap
     arms |-> 0,           \* PEXPIRE commands executed on the key
     ms |-> ms,            \* round(period*1000) of the call that opened it
     limits |-> {},        \* calls arguments of the INCRs of the window
     returned |-> <<>>,    \* counts INCR returned to callers while ~lost
     lost |-> FALSE,       \* the reply of some INCR did not reach its caller
     incrs |-> 0,          \* INCR commands executed on the key
     allowed |-> 0]        \* calls of the window that executed func

NoWindow == [NewWindow(0) EXCEPT !.open = FALSE]

NoOld == [limits |-> {}, allowed |-> 0]

\* The bindings of thread_name to the callers: the callers and the keys
\* being interchangeable, caller p1 is given the key "k".
NameBindings == {f \in [Procs -> Names] : f["p1"] = "k"}

\* The store is empty and no call of the gate has begun; the arguments of
\* rate_limiter are those of the bindings given.
GateInit(names, limits, periods, addrs) ==
    /\ nm \in names
    /\ calls \in limits
    /\ per \in periods
    /\ addr \in addrs
    /\ count = [n \in Names |-> 0]
    /\ ttl = [n \in Names |-> NoTTL]
    /\ pc = [p \in Procs |-> "idle"]
    /\ cur = [p \in Procs |-> 0]
    /\ outcome = [p \in Procs |-> "none"]
    /\ failed = [p \in Procs |-> FALSE]
    /\ nIncr = [p \in Procs |-> 0]
    /\ nPexp = [p \in Procs |-> 0]
    /\ nRuns = [p \in Procs |-> 0]
    /\ pos = [p \in Procs |-> 0]
    /\ stale = [p \in Procs |-> FALSE]
    /\ win = [n \in Names |-> NoWindow]
    /\ old = [n \in Names |-> NoOld]

\* ensure_delay's wrapper has not been called; its delay is one of delays.
DelayInit(delays) ==
    /\ dsec \in delays
    /\ dpc = "idle"
    /\ dlat = 0
    /\ dslept = 0
    /\ dres = "none"
    /\ dout = "none"

\* Every caller holds a function decorated by rate_limiter with the default
\* store address.
Init ==
    /\ GateInit(NameBindings, [Procs -> CallsInputs], [Procs -> PeriodInputs],
                [Procs -> {"localhost:6379/0"}])
    /\ DelayInit({0})

\* The callers other than p that are past their INCR of key n and have not
\* finished.
Running(p, n) ==
    {q \in Procs \ {p} : nm[q] = n /\ pc[q] \in {"pexpire", "decide"}}

\* win[n] after an INCR of key n was executed for a call with calls = c and
\* period = h; replied tells whether the caller received the new value v.
WinAfterIncr(n, c, h, v, replied) ==
    LET w == IF count[n] = 0 THEN NewWindow(Milliseconds(h)) ELSE win[n] IN
    [w EXCEPT !.limits = w.limits \cup {c},
              !.incrs = w.incrs + 1,
              !.returned = IF replied /\ ~w.lost THEN Append(w.returned, v)
                           ELSE w.returned,
              !.lost = w.lost \/ ~replied]

\* old once caller p has left its previous call behind: the record of a
\* replaced window is dropped with the last call of it.
OldAfterCall(p) ==
    IF stale[p] /\ ~\E q \in Procs \ {p} : stale[q] /\ nm[q] = nm[p]
    THEN [old EXCEPT ![nm[p]] = NoOld]
    ELSE old

\* The bookkeeping of an executed INCR of key n by caller p.
RecordIncr(p, n, v, replied) ==
    /\ win' = [win EXCEPT ![n] = WinAfterIncr(n, calls[p], per[p], v, replied)]
    /\ IF count[n] = 0
       THEN /\ old' = [OldAfterCall(p) EXCEPT ![n] =
                          IF \E q \in Running(p, n) : ~stale[q]
                          THEN [limits |-> win[n].limits,
                                allowed |-> win[n].allowed]
                          ELSE @]
            /\ stale' = [q \in Procs |->
                            IF q = p THEN FALSE
                            ELSE stale[q] \/ q \in Running(p, n)]
       ELSE /\ old' = OldAfterCall(p)
            /\ stale' = [stale EXCEPT ![p] = FALSE]

\* wrapper is entered; thread_name, calls and period were bound when the
\* function was decorated.
BeginCall(p) ==
    /\ pc[p] \in {"idle", "done"}
    /\ nRuns' = [nRuns EXCEPT ![p] = 0]
    /\ UNCHANGED <<nm, addr, calls, per>>

\* wrapper, lines 36-41: INCR, and for the first count the period check.
Incr(p) ==
    /\ BeginCall(p)
    /\ count[nm[p]] < MaxCount
    /\ LET n == nm[p]
           v == IncrValue(count[n])
           ms == Milliseconds(per[p])
       IN /\ count' = [count EXCEPT ![n] = v]
          /\ cur' = [cur EXCEPT ![p] = v]
          /\ RecordIncr(p, n, v, TRUE)
          /\ pos' = [pos EXCEPT ![p] = win'[n].incrs]
          /\ IF IsFirst(v)
             THEN IF ValidMs(ms)
                  THEN /\ pc' = [pc EXCEPT ![p] = "pexpire"]
                       /\ outcome' = [outcome EXCEPT ![p] = "none"]
                  ELSE /\ pc' = [pc EXCEPT ![p] = "done"]
                       /\ outcome' = [outcome EXCEPT ![p] = "ValidationError"]
             ELSE /\ pc' = [pc EXCEPT ![p] = "decide"]
                  /\ outcome' = [outcome EXCEPT ![p] = "none"]
    /\ failed' = [failed EXCEPT ![p] = FALSE]
    /\ nIncr' = [nIncr EXCEPT ![p] = 1]
    /\ nPexp' = [nPexp EXCEPT ![p] = 0]
    /\ UNCHANGED ttl

\* Variant: the TTL is set on every existing key.
StoreAfterPExpireAll(n, ms) ==
    [k \in Names |-> IF count[k] > 0 THEN TtlAfterPExpire(ms) ELSE ttl[k]]

\* Variant: the store answers PEXPIRE without setting a TTL.
StoreAfterPExpireLost(n, ms) == ttl

\* The store executes PEXPIRE n ms: a TTL is set on an existing key.
StoreAfterPExpire(n, ms) ==
    IF count[n] > 0 THEN [ttl EXCEPT ![n] = TtlAfterPExpire(ms)] ELSE ttl

\* win[n] after a PEXPIRE of key n was executed.
WinAfterPExpire(n) ==
    IF count[n] > 0
    THEN [win[n] EXCEPT !.armed = TRUE, !.armAge = 0, !.arms = @ + 1]
    ELSE win[n]

\* Variant: the caller goes on to its decision without sending PEXPIRE and
\* waiting for it (a deferred command).
PExpireDeferred(p) ==
    /\ pc[p] = "pexpire"
    /\ pc' = [pc EXCEPT ![p] = "decide"]
    /\ UNCHANGED <<count, ttl, nm, addr, calls, per, cur, outcome, failed, nIncr,
                   nPexp, nRuns, pos, stale, win, old>>

\* wrapper, line 42: the caller that saw count 1 arms the expiry.
PExpire(p) ==
    /\ pc[p] = "pexpire"
    /\ ttl' = StoreAfterPExpire(nm[p], Milliseconds(per[p]))
    /\ win' = [win EXCEPT ![nm[p]] = WinAfterPExpire(nm[p])]
    /\ pc' = [pc EXCEPT ![p] = "decide"]
    /\ nPexp' = [nPexp EXCEPT ![p] = @ + 1]
    /\ UNCHANGED <<count, nm, addr, calls, per, cur, outcome, failed, nIncr,
                   nRuns, pos, stale, old>>

\* wrapper, lines 44-46: compare the count with calls; run func or return None.
Decide(p) ==
    /\ pc[p] = "decide"
    /\ LET d == Decision(cur[p], calls[p])
           k == IF d = "Allowed" THEN 1 ELSE 0
       IN /\ outcome' = [outcome EXCEPT ![p] = d]
          /\ nRuns' = [nRuns EXCEPT ![p] = k]
          /\ IF stale[p]
             THEN /\ old' = [old EXCEPT ![nm[p]].allowed = @ + k]
                  /\ win' = win
             ELSE /\ win' = [win EXCEPT ![nm[p]].allowed = @ + k]
                  /\ old' = old
    /\ pc' = [pc EXCEPT ![p] = "done"]
    /\ UNCHANGED <<count, ttl, nm, addr, calls, per, cur, failed, nIncr, nPexp,
                   pos, stale>>

\* Variant: the error is swallowed and func is run (fail open).
IncrFailOpen(p, applied) ==
    /\ pc[p] \in {"idle", "done"}
    /\ failed' = [failed EXCEPT ![p] = TRUE]
    /\ nIncr' = [nIncr EXCEPT ![p] = 1]
    /\ nPexp' = [nPexp EXCEPT ![p] = 0]
    /\ cur' = [cur EXCEPT ![p] = 0]
    /\ pos' = [pos EXCEPT ![p] = 0]
    /\ outcome' = [outcome EXCEPT ![p] = "Allowed"]
    /\ nRuns' = [nRuns EXCEPT ![p] = 1]
    /\ pc' = [pc EXCEPT ![p] = "done"]
    /\ UNCHANGED <<count, ttl, nm, addr, calls, per, stale, win, old>>

\* redis_client.incr raises (connection, timeout or protocol error); nothing
\* catches it.  The command was executed by the store (applied) or was not.
IncrFail(p, applied) ==
    /\ BeginCall(p)
    /\ IF applied
       THEN LET n == nm[p] IN
            /\ count[n] < MaxCount
            /\ count' = [count EXCEPT ![n] = IncrValue(count[n])]
            /\ RecordIncr(p, n, IncrValue(count[n]), FALSE)
       ELSE /\ stale' = [stale EXCEPT ![p] = FALSE]
            /\ old' = OldAfterCall(p)
            /\ UNCHANGED <<count, win>>
    /\ cur' = [cur EXCEPT ![p] = 0]
    /\ pos' = [pos EXCEPT ![p] = 0]
    /\ failed' = [failed EXCEPT ![p] = TRUE]
    /\ nIncr' = [nIncr EXCEPT ![p] = 1]
    /\ nPexp' = [nPexp EXCEPT ![p] = 0]
    /\ pc' = [pc EXCEPT ![p] = "done"]
    /\ outcome' = [outcome EXCEPT ![p] = "StoreError"]
    /\ UNCHANGED ttl

\* redis_client.pexpire raises; nothing catches it.
PExpireFail(p, applied) ==
    /\ pc[p] = "pexpire"
    /\ IF applied
       THEN /\ ttl' = StoreAfterPExpire(nm[p], Milliseconds(per[p]))
            /\ win' = [win EXCEPT ![nm[p]] = WinAfterPExpire(nm[p])]
       ELSE UNCHANGED <<ttl, win>>
    /\ failed' = [failed EXCEPT ![p] = TRUE]
    /\ pc' = [pc EXCEPT ![p] = "done"]
    /\ outcome' = [outcome EXCEPT ![p] = "StoreError"]
    /\ nPexp' = [nPexp EXCEPT ![p] = @ + 1]
    /\ UNCHANGED <<count, nm, addr, calls, per, cur, nIncr, nRuns, pos, stale, old>>

\* The caller stops for good between its INCR and its PEXPIRE.
Crash(p) ==
    /\ pc[p] = "pexpire"
    /\ pc' = [pc EXCEPT ![p] = "crashed"]
    /\ UNCHANGED <<count, ttl, nm, addr, calls, per, cur, outcome, failed, nIncr,
                   nPexp, nRuns, pos, stale, win, old>>

\* d ms pass; the store removes the keys whose remaining life is used up.
Advance(d) ==
    /\ count' = [n \in Names |-> IF Expired(ttl[n], d) THEN 0 ELSE count[n]]
    /\ ttl' = [n \in Names |->
                  IF ttl[n] = NoTTL \/ Expired(ttl[n], d) THEN NoTTL
                  ELSE ttl[n] - d]
    /\ win' = [n \in Names |->
                  IF win[n].open
                  THEN [win[n] EXCEPT
                           !.age = Min(@ + d, AgeCap(win[n].ms)),
                           !.armAge = IF win[n].armed
                                      THEN Min(@ + d, AgeCap(win[n].ms))
                                      ELSE @]
                  ELSE win[n]]
    /\ UNCHANGED <<pc, nm, addr, calls, per, cur, outcome, failed, nIncr, nPexp,
                   nRuns, pos, stale, old>>

Next ==
    \/ \E p \in Procs : Incr(p) /\ UNCHANGED dvars
    \/ \E p \in Procs : PExpire(p) /\ UNCHANGED dvars
    \/ \E p \in Procs : Decide(p) /\ UNCHANGED dvars
    \/ \E p \in Procs, applied \in BOOLEAN :
          IncrFail(p, applied) /\ UNCHANGED dvars
    \/ \E p \in Procs, applied \in BOOLEAN :
          PExpireFail(p, applied) /\ UNCHANGED dvars
    \/ \E p \in Procs : Crash(p) /\ UNCHANGED dvars
    \/ \E d \in Steps : Advance(d) /\ UNCHANGED dvars

Spec == Init /\ [][Next]_vars

----------------------------------------------------------------------------
\* ensure_delay(seconds)(func): result = func(*args, **kwargs);
\* time.sleep(seconds); return result.  Time is counted in ticks.

\* A caller calls the wrapper; func starts.
DelayCall ==
    /\ dpc \in {"idle", "returned", "raised"}
    /\ dpc' = "func"
    /\ dlat' = 0
    /\ dslept' = 0
    /\ dres' = "none"
    /\ dout' = "none"
    /\ UNCHANGED dsec

\* A tick passes while func runs.
FuncTick ==
    /\ dpc = "func"
    /\ dlat < MaxLatency
    /\ dlat' = dlat + 1
    /\ UNCHANGED <<dpc, dsec, dslept, dres, dout>>

\* func returns r, which is assigned to result; time.sleep begins.
FuncReturn(r) ==
    /\ dpc = "func"
    /\ dres' = r
    /\ dpc' = "sleep"
    /\ UNCHANGED <<dsec, dlat, dslept, dout>>

\* func raises: the error leaves the wrapper from the assignment to result,
\* and time.sleep is not reached.
FuncRaise ==
    /\ dpc = "func"
    /\ dpc' = "raised"
    /\ UNCHANGED <<dsec, dlat, dslept, dres, dout>>

\* A tick passes in time.sleep(seconds).
SleepTick ==
    /\ dpc = "sleep"
    /\ dslept < dsec
    /\ dslept' = dslept + 1
    /\ UNCHANGED <<dpc, dsec, dlat, dres, dout>>

\* time.sleep(seconds) has returned; the wrapper returns result.
DelayReturn ==
    /\ dpc = "sleep"
    /\ dslept = dsec
    /\ dout' = dres
    /\ dpc' = "returned"
    /\ UNCHANGED <<dsec, dlat, dslept, dres>>

\* A function decorated by ensure_delay alone, with any delay up to MaxDelay.
InitDelay ==
    /\ GateInit({[p \in Procs |-> "k"]}, [Procs -> {1}], [Procs -> {2}],
                [Procs -> {"localhost:6379/0"}])
    /\ DelayInit(0 .. MaxDelay)

NextDelay ==
    \/ DelayCall /\ UNCHANGED gvars
    \/ FuncTick /\ UNCHANGED gvars
    \/ \E r \in FuncResults : FuncReturn(r) /\ UNCHANGED gvars
    \/ FuncRaise /\ UNCHANGED gvars
    \/ SleepTick /\ UNCHANGED gvars
    \/ DelayReturn /\ UNCHANGED gvars

SpecDelay == InitDelay /\ [][NextDelay]_vars

----------------------------------------------------------------------------
\* Gates on one name built with any store addresses; limits and periods as
\* the contract asks for.
InitAddr ==
    /\ GateInit({[p \in Procs |-> "k"]}, [Procs -> {1, 2}], [Procs -> {2}],
                [Procs -> Addrs])
    /\ DelayInit({0})

SpecAddr == InitAddr /\ [][Next]_vars

----------------------------------------------------------------------------
\* Executions without a fault: valid periods, limits of at least 1, no crash
\* and no store error.  Every call that has begun goes on to its next line,
\* time goes on, and every caller keeps calling.
InitLive ==
    /\ GateInit(NameBindings, [Procs -> {1, 2}], [Procs -> {2}],
                [Procs -> {"localhost:6379/0"}])
    /\ DelayInit({0})

NextLive ==
    \/ \E p \in Procs : Incr(p) /\ UNCHANGED dvars
    \/ \E p \in Procs : PExpire(p) /\ UNCHANGED dvars
    \/ \E p \in Procs : Decide(p) /\ UNCHANGED dvars
    \/ \E d \in Steps : Advance(d) /\ UNCHANGED dvars

Fairness ==
    /\ \A p \in Procs : WF_vars(PExpire(p) /\ UNCHANGED dvars)
    /\ \A p \in Procs : WF_vars(Decide(p) /\ UNCHANGED dvars)
    /\ \A p \in Procs : SF_vars(Incr(p) /\ UNCHANGED dvars)
    /\ WF_vars(\E d \in Steps : Advance(d) /\ UNCHANGED dvars)

SpecLive == InitLive /\ [][NextLive]_vars /\ Fairness

\* ------------------------------------------------------------- properties
\* The spec's range of period, (0, 5 minutes], for a period h in half-ms.
InRange(h) == h > 0 /\ h <= 2 * MaxPeriodMs

\* The period passes the check of the wrapper.
Accepted(h) == ValidMs(Milliseconds(h))

\* A step of the wrapper run by caller p.
GateStep(p) ==
    \/ Incr(p) \/ PExpire(p) \/ Decide(p)
    \/ \E applied \in BOOLEAN : IncrFail(p, applied) \/ PExpireFail(p, applied)

\* C1: budget safety.  In every window whose INCRs all came with the same
\* calls = N, the calls that executed func number at most N; the calls are
\* counted in the window their INCR fell in, also when they decide after
\* the window was replaced.
C1_BudgetSafety ==
    \A n \in Names : \A N \in CallsInputs :
        /\ win[n].limits = {N} => win[n].allowed <= N
        /\ old[n].limits = {N} => old[n].allowed <= N

\* C1 witness: two concurrent callers with calls = 1 on one key, the budget
\* used up by one and the other denied.
C1_Witness ==
    \E p, q \in Procs :
        /\ p # q /\ nm[p] = nm[q] /\ calls[p] = 1 /\ calls[q] = 1
        /\ win[nm[p]].limits = {1} /\ win[nm[p]].allowed = 1
        /\ outcome[p] = "Allowed" /\ outcome[q] = "Denied"
        /\ pc[p] = "done" /\ pc[q] = "done"

\* C2: a call with an accepted period whose store commands did not raise is
\* Allowed (func runs once) when its INCR is among the first calls[p] of the
\* window, and Denied (func does not run) when it comes later, so the
\* (N+1)th is Denied.
C2_FirstNAllowed ==
    \A p \in Procs :
        pc[p] = "done" /\ Accepted(per[p]) /\ ~failed[p] =>
            /\ pos[p] >= 1
            /\ pos[p] <= calls[p] => outcome[p] = "Allowed" /\ nRuns[p] = 1
            /\ pos[p] > calls[p] => outcome[p] = "Denied" /\ nRuns[p] = 0

\* C2 witness: N = 1; the first call of the window was Allowed, the second
\* Denied.
C2_Witness ==
    \E p, q \in Procs :
        /\ p # q /\ nm[p] = nm[q] /\ calls[p] = 1 /\ calls[q] = 1
        /\ Accepted(per[p]) /\ Accepted(per[q])
        /\ pc[p] = "done" /\ pos[p] = 1 /\ outcome[p] = "Allowed"
        /\ pc[q] = "done" /\ pos[q] = 2 /\ outcome[q] = "Denied"
        /\ win[nm[p]].incrs = 2 /\ ~win[nm[p]].lost

\* More than the period of the latest window of key n has passed since its
\* first increment.
LateSinceFirst(n) ==
    win[n].open /\ ValidMs(win[n].ms) /\ win[n].age > win[n].ms

\* More than the period of the latest window of key n has passed since the
\* PEXPIRE that armed it.
LateSinceArmed(n) ==
    win[n].open /\ win[n].armed /\ win[n].armAge > win[n].ms

\* C3 as claimed: once more than period has passed since the first increment
\* of a window, the next INCR on the key returns 1.  It is stated here for
\* the most favourable case: the window was armed, the caller's period is
\* the period of the window, and no store command has raised.
C3_RolloverFromFirstCall ==
    [][\A p \in Procs :
          /\ Incr(p) /\ LateSinceFirst(nm[p])
          /\ win[nm[p]].armed /\ Milliseconds(per[p]) = win[nm[p]].ms
          /\ \A q \in Procs : ~failed[q]
          => cur'[p] = 1]_vars

\* C3 amended: once more than period has passed since the PEXPIRE of the
\* window was executed, the next INCR on the key returns 1, whatever the
\* count had reached; and a call that saw 1 and has calls >= 1 is Allowed
\* when it decides.
C3_RolloverFromArming ==
    [][\A p \in Procs :
          /\ Incr(p) /\ LateSinceArmed(nm[p]) => cur'[p] = 1 /\ pos'[p] = 1
          /\ Decide(p) /\ cur[p] = 1 /\ calls[p] >= 1 =>
                outcome'[p] = "Allowed"]_vars

\* C3 witness: the previous window of a key reached 2 (q's call), it expired,
\* and p's call opened a new one, saw 1 and was Allowed.
C3_Witness ==
    \E p, q \in Procs :
        /\ p # q /\ nm[p] = nm[q]
        /\ pc[q] = "done" /\ cur[q] = 2
        /\ win[nm[p]].incrs = 1 /\ win[nm[p]].armed
        /\ pc[p] = "done" /\ cur[p] = 1 /\ outcome[p] = "Allowed"

\* C4: within one window, while every INCR reply reached its caller, the
\* counts returned for the M INCRs executed are 1, 2, ..., M: none twice,
\* none missing.
C4_SharedCounts ==
    \A n \in Names :
        win[n].open /\ ~win[n].lost =>
            win[n].returned = [i \in 1..win[n].incrs |-> i]

\* C4 witness: two callers are inside their calls at once, one holding
\* count 1 and the other count 2 of the same key.
C4_Witness ==
    \E p, q \in Procs :
        /\ p # q /\ nm[p] = nm[q]
        /\ pc[p] = "pexpire" /\ cur[p] = 1
        /\ pc[q] = "decide" /\ cur[q] = 2
        /\ win[nm[p]].returned = <<1, 2>>

\* C5: a step of a call on key a leaves the count and the remaining life of
\* every other key as they were.
C5_KeyIsolation ==
    [][\A p \in Procs : GateStep(p) =>
          \A b \in Names \ {nm[p]} : count'[b] = count[b] /\ ttl'[b] = ttl[b]]_vars

\* C5 witness: a call on one key has armed it while another key exists
\* with its own count and no expiry.
C5_Witness ==
    \E p, q \in Procs :
        /\ nm[p] # nm[q]
        /\ pc[p] = "done" /\ cur[p] = 1 /\ outcome[p] = "Allowed"
        /\ count[nm[p]] = 1 /\ ttl[nm[p]] # NoTTL
        /\ count[nm[q]] = 2 /\ ttl[nm[q]] = NoTTL

\* C6 as claimed: a call that ended in the validation error has sent no
\* INCR.
C6_RejectedBeforeStore ==
    \A p \in Procs : outcome[p] = "ValidationError" => nIncr[p] = 0

\* C7 as claimed: a finished call whose period is outside (0, 5 minutes] was
\* neither Allowed nor Denied and did not run func.
C7_BadPeriodAlwaysRejected ==
    \A p \in Procs :
        pc[p] = "done" /\ ~InRange(per[p]) =>
            outcome[p] \notin {"Allowed", "Denied"} /\ nRuns[p] = 0

\* C8 as claimed: a call with calls <= 0 or an empty thread_name sends no
\* INCR and is neither Allowed nor Denied.
C8_BadArgsRejected ==
    \A p \in Procs :
        pc[p] # "idle" /\ (calls[p] <= 0 \/ nm[p] = "") =>
            nIncr[p] = 0 /\ outcome[p] \notin {"Allowed", "Denied"}

\* C9: a call that ended Allowed or Denied sent one INCR and got the rank of
\* that INCR in its window as its count, a Denied one a count above calls;
\* and the value of a key is the number of INCRs executed in its window, so
\* every call is billed, Denied ones too.
C9_OneIncrPerCall ==
    /\ \A p \in Procs :
          pc[p] = "done" /\ outcome[p] \in {"Allowed", "Denied"} =>
              /\ nIncr[p] = 1 /\ cur[p] = pos[p]
              /\ outcome[p] = "Denied" => cur[p] > calls[p]
    /\ \A n \in Names : count[n] > 0 => count[n] = win[n].incrs

\* C9 witness: a call with calls = 1 was Denied with count 2, and the key
\* holds 2.
C9_Witness ==
    \E p \in Procs :
        /\ pc[p] = "done" /\ outcome[p] = "Denied"
        /\ calls[p] = 1 /\ cur[p] = 2 /\ count[nm[p]] = 2

\* C10: a call in which INCR or PEXPIRE raised has ended with the store
\* error, did not run func and sent INCR once.
C10_NoFailOpenNoRetry ==
    \A p \in Procs :
        failed[p] =>
            /\ pc[p] = "done" /\ outcome[p] = "StoreError"
            /\ nRuns[p] = 0 /\ nIncr[p] = 1

\* C10 witness: one call whose INCR raised and one whose PEXPIRE raised.
C10_Witness ==
    \E p, q \in Procs :
        /\ p # q
        /\ failed[p] /\ cur[p] = 0
        /\ failed[q] /\ cur[q] = 1

\* C11: a call that has come back with a count over its limit came back
\* Denied, raised nothing and did not run func; with a limit of at least 1
\* that is every such call, and with a limit below 1 every such call in which
\* neither the period check nor PEXPIRE raised.
C11_DeniedIsReturned ==
    \A p \in Procs :
        pc[p] = "done" /\ cur[p] >= 1 /\ cur[p] > calls[p] =>
            /\ calls[p] >= 1 \/ outcome[p] \notin {"ValidationError", "StoreError"}
               => outcome[p] = "Denied"
            /\ outcome[p] = "Denied" => ~failed[p] /\ nRuns[p] = 0
            /\ nRuns[p] = 0

\* C11 witness: the second call of a window with limit 1 came back Denied
\* without an error and without running func, whatever its period.
C11_Witness ==
    \E p \in Procs :
        /\ pc[p] = "done" /\ cur[p] = 2 /\ calls[p] = 1
        /\ outcome[p] = "Denied" /\ ~failed[p] /\ nRuns[p] = 0
        /\ ~Accepted(per[p])

\* C12: whenever ensure_delay's wrapper has handed an outcome to its caller,
\* by returning or by raising, the full delay was slept after func ended.
C12_DelayOnEveryOutcome ==
    dpc \in {"returned", "raised"} => dslept = dsec

\* C13: a call sends its INCR and PEXPIRE to the store at the address given
\* to its gate, so the counter a gate works on holds no increment of a caller
\* whose gate was given another address: it is absent until a caller with the
\* gate's own address has called.
C13_StoreOfGivenAddress ==
    \A p \in Procs :
        /\ nIncr[p] = 1 => RedisClient(addr[p]) = addr[p]
        /\ pc[p] = "idle" /\ (\A q \in Procs \ {p} : addr[q] # addr[p])
           => count[nm[p]] = 0

\* C14: once the caller that took the counter of a name from absent to 1 has
\* crashed between its INCR and its PEXPIRE, the counter is there with no
\* expiry and stays so at every step: no call on the name sends a PEXPIRE,
\* the counter is not removed, each later INCR returns the count plus one, a
\* call whose limit the count has reached gets a count over its limit, and a
\* call with a count over its limit is Denied.
C14_LostArm ==
    [][\A q \in Procs :
          pc[q] = "crashed" =>
              LET n == nm[q] IN
              /\ count[n] >= 1 /\ ttl[n] = NoTTL
              /\ count'[n] >= count[n] /\ ttl'[n] = NoTTL
              /\ \A p \in Procs :
                     nm[p] = n =>
                         /\ pc[p] # "pexpire" /\ pc'[p] # "pexpire"
                         /\ Incr(p) => cur'[p] = count[n] + 1
                         /\ Incr(p) /\ count[n] >= calls[p]
                            => cur'[p] > calls[p] /\ pc'[p] = "decide"
                         /\ Decide(p) /\ cur[p] > calls[p]
                            => outcome'[p] = "Denied" /\ nRuns'[p] = 0]_vars

\* C14 witness: the first caller crashed before PEXPIRE; time has passed, the
\* counter has no expiry, and a later call on the name was Denied.
C14_Witness ==
    \E p, q \in Procs :
        /\ pc[q] = "crashed" /\ nm[p] = nm[q]
        /\ pc[p] = "done" /\ outcome[p] = "Denied" /\ cur[p] = 2
        /\ count[nm[q]] = 2 /\ ttl[nm[q]] = NoTTL
        /\ win[nm[q]].age > win[nm[q]].ms /\ ValidMs(win[nm[q]].ms)

\* C15: a call is about to send PEXPIRE, or has sent one, only if its own
\* INCR returned 1; a call sends at most one; and the store has executed at
\* most one PEXPIRE on a name since its counter was last created.
C15_OneArmPerWindow ==
    /\ \A p \in Procs :
           /\ pc[p] = "pexpire" => cur[p] = 1 /\ nPexp[p] = 0
           /\ nPexp[p] >= 1 => cur[p] = 1 /\ nPexp[p] = 1
           /\ pc[p] \in {"decide", "done"} /\ cur[p] # 1 => nPexp[p] = 0
    /\ \A n \in Names : win[n].arms <= 1

\* C15 witness: a window in which two calls were counted has had one PEXPIRE,
\* sent by the call that got count 1; the call that got count 2 sent none.
C15_Witness ==
    \E p, q \in Procs :
        /\ nm[p] = nm[q] /\ win[nm[p]].incrs = 2 /\ win[nm[p]].arms = 1
        /\ pc[p] = "done" /\ cur[p] = 1 /\ nPexp[p] = 1
        /\ pc[q] = "done" /\ cur[q] = 2 /\ nPexp[q] = 0
        /\ ~stale[p] /\ ~stale[q]

\* C16: a call that got count 1 sends PEXPIRE after its INCR and has the reply
\* before it decides and before func runs: at PEXPIRE it has sent one INCR, no
\* PEXPIRE, and has neither decided nor run func; at its decision and after
\* it, PEXPIRE is sent and answered, and its window, if still there, has a
\* TTL; a call that has returned sent one INCR and at most one PEXPIRE, each
\* answered before the next line ran.
C16_ArmBeforeDecision ==
    \A p \in Procs :
        /\ pc[p] = "pexpire" =>
               /\ nIncr[p] = 1 /\ nPexp[p] = 0
               /\ nRuns[p] = 0 /\ outcome[p] = "none"
        /\ pc[p] = "decide" =>
               /\ nIncr[p] = 1 /\ nRuns[p] = 0 /\ outcome[p] = "none"
               /\ cur[p] = 1 => nPexp[p] = 1
               /\ cur[p] = 1 /\ ~stale[p] /\ count[nm[p]] > 0
                  => ttl[nm[p]] # NoTTL
        /\ pc[p] = "done" /\ cur[p] = 1 /\ outcome[p] \in {"Allowed", "Denied"}
           => nIncr[p] = 1 /\ nPexp[p] = 1
        /\ nRuns[p] = 1 /\ cur[p] = 1 => nPexp[p] = 1

\* C16 witness: a call that got count 1 ran func with its PEXPIRE sent and
\* the TTL still running.
C16_Witness ==
    \E p \in Procs :
        /\ pc[p] = "done" /\ cur[p] = 1 /\ outcome[p] = "Allowed"
        /\ nRuns[p] = 1 /\ nIncr[p] = 1 /\ nPexp[p] = 1
        /\ count[nm[p]] = 1 /\ ttl[nm[p]] # NoTTL

\* C17: once a counter has a TTL, no step of any call changes or removes that
\* TTL, and no step of a call removes or lowers the counter: the expiry time
\* set at arming stands until the store removes the key.
C17_FixedWindow ==
    [][\A p \in Procs :
          GateStep(p) =>
              \A n \in Names :
                  ttl[n] # NoTTL =>
                      /\ ttl'[n] = ttl[n]
                      /\ count'[n] >= count[n]
                      /\ count'[n] > 0]_vars

\* C17 witness: a window armed some time ago, with the rest of its TTL still
\* to run, in which a second call has been counted and Denied.
C17_Witness ==
    \E p \in Procs :
        LET n == nm[p] IN
        /\ win[n].armed /\ win[n].armAge >= 1
        /\ ttl[n] # NoTTL /\ ttl[n] + win[n].armAge = win[n].ms
        /\ count[n] = 2 /\ win[n].incrs = 2
        /\ pc[p] = "done" /\ cur[p] = 2 /\ ~stale[p] /\ outcome[p] = "Denied"

\* C19: a counter is absent (0) or positive; a step changes it only by one
\* executed INCR of a call on its name, to exactly one more, or by the store
\* removing it at a time step past its TTL; an INCR that returns gives the
\* count it left, which is 1 when the counter was absent; the steps of a
\* call after its INCR change no counter.
C19_CounterMonotone ==
    [][\A n \in Names :
          /\ count[n] >= 0 /\ count'[n] >= 0
          /\ count'[n] > count[n] =>
                /\ count'[n] = count[n] + 1
                /\ \E p \in Procs :
                       nm[p] = n /\ (Incr(p) \/ IncrFail(p, TRUE))
          /\ count'[n] < count[n] =>
                /\ count'[n] = 0 /\ ttl[n] # NoTTL /\ ttl'[n] = NoTTL
                /\ \E d \in Steps : Expired(ttl[n], d) /\ Advance(d)
          /\ \A p \in Procs :
                 /\ nm[p] = n /\ pc[p] \in {"idle", "done"}
                    /\ pc'[p] \in {"pexpire", "decide"}
                    => /\ count'[n] = count[n] + 1 /\ cur'[p] = count'[n]
                       /\ count[n] = 0 => cur'[p] = 1
                 /\ pc[p] \in {"pexpire", "decide"} /\ pc'[p] # pc[p]
                    => count'[n] = count[n]]_vars

\* C19 witness: a counter that q had created and armed was removed at its
\* TTL, and the next INCR on the name, by p, returned 1.
C19_Witness ==
    \E p, q \in Procs :
        /\ p # q /\ nm[p] = nm[q]
        /\ pc[q] = "done" /\ cur[q] = 1 /\ nPexp[q] = 1
        /\ pc[p] = "pexpire" /\ cur[p] = 1 /\ calls[p] = 1
        /\ count[nm[p]] = 1 /\ win[nm[p]].incrs = 1
        /\ old[nm[p]] = NoOld

\* C18 as claimed: without a fault, a caller that keeps calling and was
\* Denied is eventually Allowed again.
C18_CallerAllowedAgain ==
    \A p \in Procs :
        (pc[p] = "done" /\ outcome[p] = "Denied")
            ~> (pc[p] = "done" /\ outcome[p] = "Allowed")

\* C18 amended: without a fault every counter that exists is eventually
\* removed, after a removal some caller on the name opens a new window, and
\* the caller that opens a window is Allowed in it.
C18_NoPermanentDenial ==
    /\ \A n \in Names : (count[n] > 0) ~> (count[n] = 0)
    /\ \A p \in Procs :
           (pc[p] = "done" /\ outcome[p] = "Denied")
               ~> (\E q \in Procs : nm[q] = nm[p] /\ pc[q] = "pexpire")
    /\ \A q \in Procs :
           (pc[q] = "pexpire")
               ~> (pc[q] = "done" /\ cur[q] = 1 /\ outcome[q] = "Allowed")

\* C18 witness: a caller was Denied, the counter was removed at its TTL, and
\* another caller on the name opened the next window and was Allowed in it.
C18_Witness ==
    \E p, q \in Procs :
        /\ p # q /\ nm[p] = nm[q]
        /\ pc[p] = "done" /\ outcome[p] = "Denied" /\ cur[p] = 2
        /\ pc[q] = "done" /\ outcome[q] = "Allowed" /\ cur[q] = 1
        /\ win[nm[p]].incrs = 1 /\ win[nm[p]].allowed = 1
        /\ count[nm[p]] = 1
====
